---- MODULE Spec2Model ----
(***************************************************************************)
(* State-machine model of the conversation-orchestration engine of         *)
(* backend/experiment.py (class Experiment) and its driver backend/main.py. *)
(* The model client is the environment: a call either returns a text,      *)
(* returns a response with an empty content list, or raises.               *)
(***************************************************************************)
EXTENDS Integers, Sequences, FiniteSets, TLC

\* ------------------------------------------------------------------ bounds
MaxAgents == 2
MaxTurns == 2
MaxSamples == 2
\* most model calls one batch may make
MaxCalls == 8

\* ------------------------------------------------------- program constants
SeedGreeting == "Hello! I'm looking forward to our conversation."
MaxTokens == 1000
DefaultNumSamples == 1

\* ------------------------------------------------------ input value spaces
ModelNames == {"model-x", "model-y"}
Profiles == {[name |-> "A", system_prompt |-> "You are A."],
             [name |-> "B", system_prompt |-> "You are B."]}
Replies == {"r1", "r2"}
NoText == "<none>"
NoError == "none"
\* the failures of the model client: rate limit, timeout, bad request, server
ErrorKinds == {"RateLimited", "Timeout", "InvalidRequest", "ServerError"}

Rosters == UNION {[1..n -> Profiles] : n \in 0..MaxAgents}
NumTurnsValues == -1..MaxTurns
NumSamplesValues == -1..MaxSamples

\* A config dict as loaded from YAML; the key num_samples may be absent.
ConfigsWithSamples ==
    [model_name : ModelNames, agents : Rosters,
     num_turns : NumTurnsValues, num_samples : NumSamplesValues]
ConfigsWithoutSamples ==
    [model_name : ModelNames, agents : Rosters, num_turns : NumTurnsValues]
\* number of model calls the batch of a config makes when none fails
CallBudget(cfg) ==
    LET pos(n) == IF n > 0 THEN n ELSE 0
        samples == IF "num_samples" \in DOMAIN cfg
                     THEN cfg.num_samples ELSE DefaultNumSamples
    IN  pos(samples) * pos(cfg.num_turns) * Len(cfg.agents)

Configs ==
    {cfg \in ConfigsWithSamples \cup ConfigsWithoutSamples :
        CallBudget(cfg) <= MaxCalls}

VARIABLES
    config,                \* self.config
    pc,                    \* position of the single thread of control
    num_samples,           \* local of run_samples
    results,               \* local of run_samples
    sample_i,              \* number of finished iterations of the sample loop
    progress,              \* tqdm counter of finished iterations
    messages,              \* local of _run_conversation: the transcript
    conversation_history,  \* local of _run_conversation: model-facing history
    current_message,       \* local of _run_conversation
    turn_i,                \* number of finished iterations of the round loop
    agent_i,               \* 1-based position in the roster of the inner loop
    calls,                 \* log of the requests handed to the model client
    responses,             \* log of the outcomes of those requests
    files                  \* files written by main

vars == <<config, pc, num_samples, results, sample_i, progress, messages,
          conversation_history, current_message, turn_i, agent_i, calls,
          responses, files>>

convVars == <<messages, conversation_history, current_message, turn_i, agent_i>>
batchVars == <<num_samples, results, sample_i, progress>>

\* ------------------------------------------------------------ pure helpers
\* variant: a missing num_samples counts as no sample at all
GetNumSamplesDefaultZero(cfg) ==
    IF "num_samples" \in DOMAIN cfg THEN cfg.num_samples ELSE 0

\* variant: setdefault, which stores the default in the dict
configAfterSetdefault(cfg) ==
    IF "num_samples" \in DOMAIN cfg
      THEN cfg
      ELSE [k \in DOMAIN cfg \cup {"num_samples"} |->
              IF k = "num_samples" THEN DefaultNumSamples ELSE cfg[k]]

\* self.config after self.config.get(...): get never stores the default
configAfterGet(cfg) == cfg

\* self.config.get("num_samples", 1)
GetNumSamples(cfg) ==
    IF "num_samples" \in DOMAIN cfg THEN cfg.num_samples ELSE DefaultNumSamples

\* variant: only the latest message is sent, without the history
buildRequestContextNoHistory(history, cur) ==
    <<[role |-> "user", content |-> cur]>>

\* variant: the prompt of every turn is the seed greeting
buildRequestContextStaleSeed(history, cur) ==
    history \o <<[role |-> "user", content |-> SeedGreeting]>>

\* conversation_history + [{"role": "user", "content": current_message}]
buildRequestContext(history, cur) ==
    history \o <<[role |-> "user", content |-> cur]>>

\* variant: only the reply is recorded in the history
advanceHistoryAssistantOnly(history, cur, content) ==
    history \o <<[role |-> "assistant", content |-> content]>>

\* variant: the two entries are appended in the opposite order
advanceHistorySwapped(history, cur, content) ==
    history \o <<[role |-> "assistant", content |-> content],
                 [role |-> "user", content |-> cur]>>

\* variant: the history is replaced by the last exchange instead of extended
advanceHistoryReplace(history, cur, content) ==
    <<[role |-> "user", content |-> cur],
      [role |-> "assistant", content |-> content]>>

\* variant: the last two entries plus the new exchange (a sliding window)
advanceHistoryWindow(history, cur, content) ==
    SubSeq(history, IF Len(history) > 2 THEN Len(history) - 1 ELSE 1, Len(history))
        \o <<[role |-> "user", content |-> cur],
             [role |-> "assistant", content |-> content]>>

\* variant: the exchange is recorded twice
advanceHistoryTwice(history, cur, content) ==
    history \o <<[role |-> "user", content |-> cur],
                 [role |-> "assistant", content |-> content],
                 [role |-> "user", content |-> cur],
                 [role |-> "assistant", content |-> content]>>

\* conversation_history.extend([...])
advanceHistory(history, cur, content) ==
    history \o <<[role |-> "user", content |-> cur],
                 [role |-> "assistant", content |-> content]>>

\* variant: the entry is inserted at the front of the transcript
appendTranscriptPrepend(msgs, agent_config, content) ==
    <<[role |-> "assistant", speaker |-> agent_config.name,
       content |-> content]>> \o msgs

\* messages.append({"role": "assistant", "speaker": ..., "content": ...})
appendTranscript(msgs, agent_config, content) ==
    Append(msgs, [role |-> "assistant", speaker |-> agent_config.name,
                  content |-> content])

\* variant: the conversation is inserted at the front of the results
prependResult(res, result) == <<result>> \o res

\* results.append(result)
appendResult(res, result) == Append(res, result)

\* variant: the prompt is appended to the history in place
historyAfterBuildInPlace(history, cur) ==
    history \o <<[role |-> "user", content |-> cur]>>

\* conversation_history after evaluating conversation_history + [...]:
\* list concatenation builds a new list and leaves its operands alone
historyAfterBuild(history, cur) == history

\* variant: every call carries the system prompt of the first agent
BuildRequestFirstAgent(cfg, agent_config, history, cur) ==
    [model |-> cfg.model_name,
     max_tokens |-> MaxTokens,
     system |-> cfg.agents[1].system_prompt,
     messages |-> buildRequestContext(history, cur)]

\* the keyword arguments of self.client.messages.create(...)
BuildRequest(cfg, agent_config, history, cur) ==
    [model |-> cfg.model_name,
     max_tokens |-> MaxTokens,
     system |-> agent_config.system_prompt,
     messages |-> buildRequestContext(history, cur)]

\* variant: the range is inclusive of its upper end
RangeHasNextInclusive(i, n) == i <= n

\* range(n) still has an item after i finished iterations
RangeHasNext(i, n) == i < n

\* variant: the last agent of the roster is never reached
RosterHasNextOffByOne(a, roster) == a < Len(roster)

\* the roster still has an item at 1-based position a
RosterHasNext(a, roster) == a <= Len(roster)

\* variant: the transcript outlives the conversation that filled it
StaleMessages == messages

\* messages = []
FreshMessages == <<>>

\* variant: the prompt outlives the conversation that produced it
StaleCurrentMessage ==
    IF current_message = NoText THEN SeedGreeting ELSE current_message

\* variant: the history outlives the conversation that built it
StaleHistory == conversation_history

\* conversation_history = []
FreshHistory == <<>>

\* current_message = "Hello! I'm looking forward to our conversation."
FreshCurrentMessage == SeedGreeting

\* --------------------------------------------------------------- initial
Init ==
    /\ config \in Configs
    /\ pc = "constructed"
    /\ num_samples = 0
    /\ results = <<>>
    /\ sample_i = 0
    /\ progress = 0
    /\ messages = <<>>
    /\ conversation_history = <<>>
    /\ current_message = NoText
    /\ turn_i = 0
    /\ agent_i = 0
    /\ calls = <<>>
    /\ responses = <<>>
    /\ files = <<>>

\* ---------------------------------------------------------------- actions
\* run_samples entry: num_samples = config.get(...); results = []
RunSamples ==
    /\ pc = "constructed"
    /\ num_samples' = GetNumSamples(config)
    /\ results' = <<>>
    /\ sample_i' = 0
    /\ progress' = 0
    /\ config' = configAfterGet(config)
    /\ pc' = "sample_loop"
    /\ UNCHANGED <<convVars, calls, responses, files>>

\* the sample loop yields the next item and _run_conversation is entered
StartConversation ==
    /\ pc = "sample_loop"
    /\ RangeHasNext(sample_i, num_samples)
    /\ messages' = FreshMessages
    /\ conversation_history' = FreshHistory
    /\ current_message' = FreshCurrentMessage
    /\ turn_i' = 0
    /\ agent_i' = 0
    /\ pc' = "round_loop"
    /\ UNCHANGED <<config, batchVars, calls, responses, files>>

\* the round loop yields the next round
NextRound ==
    /\ pc = "round_loop"
    /\ RangeHasNext(turn_i, config.num_turns)
    /\ agent_i' = 1
    /\ pc' = "agent_loop"
    /\ UNCHANGED <<config, batchVars, messages, conversation_history,
                   current_message, turn_i, calls, responses, files>>

\* variant: the call is sent without waiting for its response
IssueCallNoWait ==
    /\ pc = "agent_loop"
    /\ RosterHasNext(agent_i, config.agents)
    /\ calls' = Append(calls,
          [sample |-> sample_i + 1, round |-> turn_i + 1, agent |-> agent_i,
           request |-> BuildRequest(config, config.agents[agent_i],
                                    conversation_history, current_message)])
    /\ agent_i' = agent_i + 1
    /\ pc' = "agent_loop"
    /\ UNCHANGED <<config, batchVars, messages, conversation_history,
                   current_message, turn_i, responses, files>>

\* the agent loop yields the next agent and the model call is issued
IssueCall ==
    /\ pc = "agent_loop"
    /\ RosterHasNext(agent_i, config.agents)
    /\ calls' = Append(calls,
          [sample |-> sample_i + 1, round |-> turn_i + 1, agent |-> agent_i,
           request |-> BuildRequest(config, config.agents[agent_i],
                                    conversation_history, current_message)])
    /\ conversation_history' =
          historyAfterBuild(conversation_history, current_message)
    /\ pc' = "awaiting"
    /\ UNCHANGED <<config, batchVars, messages, current_message, turn_i,
                   agent_i, responses, files>>

\* the call returns a text; the rest of the loop body runs
ModelRespond ==
    /\ pc = "awaiting"
    /\ \E content \in Replies :
         /\ responses' = Append(responses, [kind |-> "text", text |-> content, error |-> NoError])
         /\ messages' = appendTranscript(messages, config.agents[agent_i], content)
         /\ conversation_history' =
                advanceHistory(conversation_history, current_message, content)
         /\ current_message' = content
    /\ agent_i' = agent_i + 1
    /\ pc' = "agent_loop"
    /\ UNCHANGED <<config, batchVars, turn_i, calls, files>>

\* variant: the failed call is issued again for the same agent
ModelRaiseRetry ==
    /\ pc = "awaiting"
    /\ \E e \in ErrorKinds :
         responses' = Append(responses,
            [kind |-> "error", text |-> NoText, error |-> e])
    /\ pc' = "agent_loop"
    /\ UNCHANGED <<config, batchVars, convVars, calls, files>>

\* variant: the failed sample is dropped and the batch goes on
ModelRaiseSkipSample ==
    /\ pc = "awaiting"
    /\ \E e \in ErrorKinds :
         responses' = Append(responses,
            [kind |-> "error", text |-> NoText, error |-> e])
    /\ sample_i' = sample_i + 1
    /\ pc' = "sample_loop"
    /\ UNCHANGED <<config, num_samples, results, progress, convVars, calls, files>>

\* variant: the failure is swallowed and the next agent speaks
ModelRaiseSwallow ==
    /\ pc = "awaiting"
    /\ \E e \in ErrorKinds :
         responses' = Append(responses,
            [kind |-> "error", text |-> NoText, error |-> e])
    /\ agent_i' = agent_i + 1
    /\ pc' = "agent_loop"
    /\ UNCHANGED <<config, batchVars, messages, conversation_history,
                   current_message, turn_i, calls, files>>

\* the call raises; nothing catches the exception up to the top of main
ModelRaise ==
    /\ pc = "awaiting"
    /\ \E e \in ErrorKinds :
         responses' = Append(responses,
            [kind |-> "error", text |-> NoText, error |-> e])
    /\ pc' = "raised"
    /\ UNCHANGED <<config, batchVars, convVars, calls, files>>

\* the call returns a response whose content list is empty: content[0] raises
ModelRespondEmpty ==
    /\ pc = "awaiting"
    /\ responses' = Append(responses,
          [kind |-> "empty", text |-> NoText, error |-> "IndexError"])
    /\ pc' = "raised"
    /\ UNCHANGED <<config, batchVars, convVars, calls, files>>

\* the agent loop is exhausted: one round is finished
EndRound ==
    /\ pc = "agent_loop"
    /\ ~RosterHasNext(agent_i, config.agents)
    /\ turn_i' = turn_i + 1
    /\ pc' = "round_loop"
    /\ UNCHANGED <<config, batchVars, messages, conversation_history,
                   current_message, agent_i, calls, responses, files>>

\* variant: the progress count is not advanced when a sample ends
EndConversationNoTick ==
    /\ pc = "round_loop"
    /\ ~RangeHasNext(turn_i, config.num_turns)
    /\ results' = appendResult(results, messages)
    /\ sample_i' = sample_i + 1
    /\ pc' = "sample_loop"
    /\ UNCHANGED <<config, num_samples, progress, convVars, calls, responses, files>>

\* the round loop is exhausted: return messages; results.append(result)
EndConversation ==
    /\ pc = "round_loop"
    /\ ~RangeHasNext(turn_i, config.num_turns)
    /\ results' = appendResult(results, messages)
    /\ sample_i' = sample_i + 1
    /\ progress' = progress + 1
    /\ pc' = "sample_loop"
    /\ UNCHANGED <<config, num_samples, convVars, calls, responses, files>>

\* the sample loop is exhausted: return results
ReturnResults ==
    /\ pc = "sample_loop"
    /\ ~RangeHasNext(sample_i, num_samples)
    /\ pc' = "returned"
    /\ UNCHANGED <<config, batchVars, convVars, calls, responses, files>>

\* variant: the transcript file is rewritten after every sample
WriteTranscriptPerSample ==
    /\ pc = "sample_loop"
    /\ Len(files) < Len(results)
    /\ files' = Append(files,
          [name |-> "transcript.json", content |-> results, complete |-> TRUE])
    /\ UNCHANGED <<config, pc, batchVars, convVars, calls, responses>>

\* main: json.dump(results) into transcript.json
WriteTranscript ==
    /\ pc = "returned"
    /\ files' = Append(files,
          [name |-> "transcript.json", content |-> results, complete |-> TRUE])
    /\ pc' = "wrote_transcript"
    /\ UNCHANGED <<config, batchVars, convVars, calls, responses>>

\* main: yaml.dump(config) into config.yaml
WriteConfig ==
    /\ pc = "wrote_transcript"
    /\ files' = Append(files,
          [name |-> "config.yaml", content |-> config, complete |-> TRUE])
    /\ pc' = "done"
    /\ UNCHANGED <<config, batchVars, convVars, calls, responses>>

Next ==
    \/ RunSamples
    \/ StartConversation
    \/ NextRound
    \/ IssueCall
    \/ ModelRespond
    \/ ModelRaise
    \/ ModelRespondEmpty
    \/ EndRound
    \/ EndConversation
    \/ ReturnResults
    \/ WriteTranscript
    \/ WriteConfig

Spec == Init /\ [][Next]_vars

\* ------------------------------------------------- definitions for claims
NumAgents == Len(config.agents)
NumTurns == config.num_turns
ValidConfig == NumAgents >= 1 /\ NumTurns >= 1

InConversation == pc \in {"round_loop", "agent_loop", "awaiting", "raised"}
RunSamplesReturned == pc \in {"returned", "wrote_transcript", "done"}
Terminated == pc \in {"done", "raised"}

UserEntry(text) == [role |-> "user", content |-> text]
AssistantEntry(text) == [role |-> "assistant", content |-> text]

\* 1-based number of the turn of a logged call within its conversation
TurnNumber(c) == (c.round - 1) * NumAgents + c.agent

\* positions in the call log of the calls of sample s, in issue order
SampleCallIdx(s) ==
    SelectSeq([j \in 1..Len(calls) |-> j], LAMBDA j : calls[j].sample = s)

\* a call is the first of its sample
FirstOfSample(j) == j = 1 \/ calls[j - 1].sample # calls[j].sample

\* number of agent turns the running conversation has completed
CompletedTurns ==
    Cardinality({j \in 1..Len(responses) :
                    calls[j].sample = sample_i + 1 /\ responses[j].kind = "text"})

\* the transcript that the logged calls of sample s account for
LoggedTranscript(s) ==
    LET idx == SampleCallIdx(s)
    IN  [k \in 1..Len(idx) |->
            [role |-> "assistant",
             speaker |-> config.agents[calls[idx[k]].agent].name,
             content |-> responses[idx[k]].text]]

Alternates(history) ==
    \A p \in 1..Len(history) :
        history[p].role = IF p % 2 = 1 THEN "user" ELSE "assistant"

\* samples one of whose model calls did not yield a text
FailedSamples ==
    {calls[j].sample : j \in {i \in 1..Len(responses) : responses[i].kind # "text"}}

\* ----------------------------------------------------------------- claims
\* C1: for a valid config (roster length A >= 1, num_turns T >= 1) every
\* conversation returned by _run_conversation has exactly T * A entries.
C1_TranscriptLength ==
    ValidConfig =>
        \A i \in 1..Len(results) : Len(results[i]) = NumTurns * NumAgents

C1_Witness ==
    /\ NumAgents = 2 /\ NumTurns = 2
    /\ Len(results) >= 1
    /\ Len(results[1]) = 4

\* C2: while a conversation runs, the history alternates user/assistant
\* starting with user, its length is twice the number of completed agent
\* turns, and when the round loop of a valid config is exhausted it is
\* 2 * T * A.
C2_HistoryShape ==
    InConversation =>
        /\ Alternates(conversation_history)
        /\ Len(conversation_history) = 2 * CompletedTurns
        /\ (ValidConfig /\ pc = "round_loop"
              /\ ~RangeHasNext(turn_i, config.num_turns))
             => Len(conversation_history) = 2 * NumTurns * NumAgents

C2_Witness ==
    /\ NumAgents = 2 /\ NumTurns = 2
    /\ pc = "round_loop" /\ turn_i = 2
    /\ Len(conversation_history) = 8

\* C3: the last message of the request of every turn k has role user; its
\* content is the seed greeting for k = 1 and otherwise the text returned
\* in turn k-1 of the same conversation.
C3_RoleRelabelling ==
    \A j \in 1..Len(calls) :
        LET m == calls[j].request.messages
            k == TurnNumber(calls[j])
        IN  /\ Len(m) >= 1
            /\ m[Len(m)].role = "user"
            /\ IF k = 1
                 THEN m[Len(m)].content = SeedGreeting
                 ELSE /\ j >= 2
                      /\ calls[j - 1].sample = calls[j].sample
                      /\ TurnNumber(calls[j - 1]) = k - 1
                      /\ responses[j - 1].kind = "text"
                      /\ m[Len(m)].content = responses[j - 1].text

C3_Witness ==
    /\ NumAgents = 2
    /\ Len(calls) >= 3
    /\ calls[3].sample = 1 /\ calls[3].round = 2 /\ calls[3].agent = 1
    /\ calls[3].request.messages[5].content = responses[2].text
    /\ responses[1].text # responses[2].text

\* C4: with agents [A, B] and num_turns 2, the request of turn 1 is
\* [{user, seed}] sent to A, the request of turn 2 is
\* [{user, seed}, {assistant, reply1}, {user, reply1}] sent to B, and the
\* transcript is [{A, reply1}, {B, reply2}, {A, reply3}, {B, reply4}].
ExampleConfig ==
    /\ NumTurns = 2
    /\ NumAgents = 2
    /\ config.agents[1].name = "A"
    /\ config.agents[2].name = "B"

C4_WorkedExample ==
    ExampleConfig =>
        /\ \A j \in 1..Len(calls) :
              /\ TurnNumber(calls[j]) = 1 =>
                    /\ calls[j].request.messages = <<UserEntry(SeedGreeting)>>
                    /\ calls[j].request.system = config.agents[1].system_prompt
              /\ TurnNumber(calls[j]) = 2 =>
                    /\ calls[j].request.messages =
                          <<UserEntry(SeedGreeting),
                            AssistantEntry(responses[j - 1].text),
                            UserEntry(responses[j - 1].text)>>
                    /\ calls[j].request.system = config.agents[2].system_prompt
        /\ \A s \in 1..Len(results) :
              LET idx == SampleCallIdx(s)
                  entry(n, t) == [role |-> "assistant", speaker |-> n, content |-> t]
              IN  /\ Len(idx) = 4
                  /\ Len(results[s]) = 4
                  /\ results[s] = <<entry("A", responses[idx[1]].text),
                                    entry("B", responses[idx[2]].text),
                                    entry("A", responses[idx[3]].text),
                                    entry("B", responses[idx[4]].text)>>

C4_Witness ==
    /\ ExampleConfig
    /\ Len(results) >= 1
    /\ results[1][1].content # results[1][2].content
    /\ results[1][3].speaker = "A"

\* C5: in every transcript, complete or partial, the entry at 0-based index
\* i has the name of roster agent number i mod len(agents) as speaker.
RosterOrder(tr) ==
    \A i \in 1..Len(tr) :
        /\ NumAgents >= 1
        /\ tr[i].speaker = config.agents[((i - 1) % NumAgents) + 1].name

C5_RosterOrder ==
    /\ RosterOrder(messages)
    /\ \A s \in 1..Len(results) : RosterOrder(results[s])

C5_Witness ==
    /\ NumAgents = 2
    /\ config.agents[1].name # config.agents[2].name
    /\ pc = "awaiting"
    /\ Len(messages) = 3
    /\ Len(results) = 1

\* C6: in a conversation that completes under a valid config, the model is
\* called exactly once per (round, agent) pair, rounds increasing from 1 to
\* num_turns and agents in roster order within each round.
C6_CallOrder ==
    ValidConfig =>
        \A s \in 1..Len(results) :
            LET idx == SampleCallIdx(s)
            IN  /\ Len(idx) = NumTurns * NumAgents
                /\ \A k \in 1..Len(idx) :
                      /\ calls[idx[k]].round = ((k - 1) \div NumAgents) + 1
                      /\ calls[idx[k]].agent = ((k - 1) % NumAgents) + 1
                      /\ calls[idx[k]].request.system =
                            config.agents[((k - 1) % NumAgents) + 1].system_prompt

C6_Witness ==
    /\ NumAgents = 2 /\ NumTurns = 2
    /\ Len(results) = 2
    /\ Len(calls) = 8
    /\ calls[7].round = 2 /\ calls[7].agent = 1 /\ calls[7].sample = 2

\* C7: at most one model call is in flight, a call is in flight exactly
\* while the conversation waits for it, and the request of turn k+1 is the
\* request of turn k extended by the reply of turn k as an assistant entry
\* and again as the new user prompt.
InFlight == Len(calls) - Len(responses)

C7_SequentialTurns ==
    /\ InFlight \in {0, 1}
    /\ InFlight = 1 <=> pc = "awaiting"
    /\ \A j \in 2..Len(calls) :
          ~FirstOfSample(j) =>
              /\ responses[j - 1].kind = "text"
              /\ calls[j].request.messages =
                    calls[j - 1].request.messages
                       \o <<AssistantEntry(responses[j - 1].text),
                            UserEntry(responses[j - 1].text)>>

C7_Witness ==
    /\ pc = "awaiting"
    /\ Len(calls) = 3 /\ Len(responses) = 2
    /\ calls[3].sample = 1
    /\ Len(calls[3].request.messages) = 5

\* C8: the first request of every sample is exactly [{user, seed}],
\* whatever the samples before it produced.
C8_FreshSamples ==
    \A j \in 1..Len(calls) :
        FirstOfSample(j) =>
            calls[j].request.messages = <<UserEntry(SeedGreeting)>>

C8_Witness ==
    /\ Len(calls) >= 2
    /\ calls[Len(calls)].sample = 2
    /\ FirstOfSample(Len(calls))
    /\ Len(results) = 1 /\ Len(results[1]) >= 1

\* C9: when run_samples returns, it returns num_samples conversations and
\* the conversation at index i is the transcript of the i-th sample run.
C9_SubmissionOrder ==
    (RunSamplesReturned /\ num_samples >= 0) =>
        /\ Len(results) = num_samples
        /\ \A i \in 1..Len(results) : results[i] = LoggedTranscript(i)

C9_Witness ==
    /\ RunSamplesReturned
    /\ num_samples = 2
    /\ Len(results) = 2
    /\ Len(results[1]) >= 1
    /\ results[1] # results[2]

\* C10: when a sample fails, every other sample still runs to completion
\* and its transcript appears in the result that run_samples returns.
SampleCompleted(s) ==
    LET idx == SampleCallIdx(s)
    IN  /\ Len(idx) = NumTurns * NumAgents
        /\ \A k \in 1..Len(idx) :
              /\ idx[k] <= Len(responses)
              /\ responses[idx[k]].kind = "text"

C10_PartialFailureIsolation ==
    (Terminated /\ ValidConfig /\ FailedSamples # {}) =>
        \A s \in (1..num_samples) \ FailedSamples :
            /\ SampleCompleted(s)
            /\ RunSamplesReturned
            /\ \E i \in 1..Len(results) : results[i] = LoggedTranscript(s)

\* C11: a model call that fails is never attempted again and aborts the
\* whole batch: it is the last call ever issued, run_samples does not
\* return, and main writes no file.
C11_NoRetryAbortsBatch ==
    \A j \in 1..Len(responses) :
        responses[j].kind # "text" =>
            /\ j = Len(calls)
            /\ j = Len(responses)
            /\ pc = "raised"
            /\ ~RunSamplesReturned
            /\ files = <<>>

C11_Witness ==
    /\ pc = "raised"
    /\ num_samples = 2
    /\ Len(results) = 1 /\ Len(results[1]) >= 1
    /\ responses[Len(responses)].kind = "error"
    /\ calls[Len(calls)].sample = 2

\* C12: a call that fails with RateLimited fewer times than the attempt
\* limit is retried for the same (round, agent): by the time the run has
\* ended, a later call for the same sample, round and agent was issued.
C12_RetryBound ==
    \A j \in 1..Len(responses) :
        (Terminated /\ responses[j].error = "RateLimited") =>
            \E j2 \in (j + 1)..Len(calls) :
                /\ calls[j2].sample = calls[j].sample
                /\ calls[j2].round = calls[j].round
                /\ calls[j2].agent = calls[j].agent

\* C13: a call that fails with InvalidRequest is never retried: the sample
\* fails at once and no further call is issued for that sample.
C13_InvalidRequestNotRetried ==
    \A j \in 1..Len(responses) :
        responses[j].error = "InvalidRequest" =>
            /\ pc = "raised"
            /\ \A j2 \in 1..Len(calls) :
                  calls[j2].sample = calls[j].sample => j2 <= j

C13_Witness ==
    /\ pc = "raised"
    /\ Len(responses) = 3
    /\ responses[3].error = "InvalidRequest"
    /\ calls[3].sample = 1
    /\ NumTurns = 2 /\ NumAgents = 2

\* C14: an invalid config (empty roster, non-positive num_turns or
\* num_samples) is rejected before anything runs: no model call, no result
\* returned by run_samples, no file written.
InvalidConfig ==
    \/ NumAgents = 0
    \/ NumTurns <= 0
    \/ ("num_samples" \in DOMAIN config /\ config.num_samples <= 0)

C14_ConfigValidated ==
    InvalidConfig =>
        /\ calls = <<>>
        /\ ~RunSamplesReturned
        /\ files = <<>>

\* texts returned to the calls of the same sample that precede call j
PriorReplies(j) ==
    LET idx == SelectSeq([i \in 1..(j - 1) |-> i],
                         LAMBDA i : calls[i].sample = calls[j].sample)
    IN  [k \in 1..Len(idx) |-> responses[idx[k]].text]

\* the request context that a sequence of replies accounts for
RECURSIVE ContextFrom(_)
ContextFrom(replies) ==
    IF replies = <<>>
      THEN <<UserEntry(SeedGreeting)>>
      ELSE ContextFrom(SubSeq(replies, 1, Len(replies) - 1))
              \o <<AssistantEntry(replies[Len(replies)]),
                   UserEntry(replies[Len(replies)])>>

\* C15: what an agent is sent depends on the config and on the replies of
\* its own conversation only: every request context is the one built from
\* the seed and the earlier replies of the same sample, and the
\* conversations already returned are never changed by a later one.
C15_NoSharedState ==
    /\ \A j \in 1..Len(calls) :
          calls[j].request.messages = ContextFrom(PriorReplies(j))
    /\ \A s \in 1..Len(results) :
          s <= sample_i /\ results[s] = LoggedTranscript(s)

C15_Witness ==
    /\ Len(results) = 1
    /\ Len(calls) >= 2
    /\ calls[Len(calls)].sample = 2
    /\ Len(PriorReplies(Len(calls))) = 2
    /\ PriorReplies(Len(calls)) # PriorReplies(3)
    /\ Len(results[1]) = 4

\* C16: building the request context leaves history and current_message
\* as they were, building it again right after the call was issued gives
\* the list that was sent, and both still hold after the call has failed.
C16_BuildIsPure ==
    [][/\ (pc = "agent_loop" /\ pc' = "awaiting") =>
             /\ conversation_history' = conversation_history
             /\ current_message' = current_message
             /\ buildRequestContext(conversation_history', current_message')
                   = calls'[Len(calls')].request.messages
       /\ (pc = "awaiting" /\ pc' = "raised") =>
             /\ conversation_history' = conversation_history
             /\ current_message' = current_message
             /\ buildRequestContext(conversation_history', current_message')
                   = calls[Len(calls)].request.messages]_vars

C16_Witness ==
    /\ pc = "raised"
    /\ responses[Len(responses)].kind = "error"
    /\ Len(conversation_history) = 4
    /\ Len(calls[Len(calls)].request.messages) = 5

\* a step in which a model call returns a text
TextStep ==
    /\ Len(responses') = Len(responses) + 1
    /\ responses'[Len(responses')].kind = "text"

\* C17: every step in which a call returns a text appends {user, old
\* current_message} and {assistant, text} to the history, sets
\* current_message to the text and leaves the config alone; no other step
\* of a conversation changes history or current_message (entering a
\* conversation resets them).
C17_AdvanceEffect ==
    [][/\ TextStep =>
             LET text == responses'[Len(responses')].text
             IN  /\ conversation_history' =
                       conversation_history
                          \o <<UserEntry(current_message), AssistantEntry(text)>>
                 /\ current_message' = text
                 /\ config' = config
       /\ conversation_history' # conversation_history =>
             \/ TextStep
             \/ pc = "sample_loop" /\ conversation_history' = <<>>
       /\ current_message' # current_message =>
             \/ TextStep
             \/ pc = "sample_loop" /\ current_message' = SeedGreeting]_vars

C17_Witness ==
    /\ Len(conversation_history) = 4
    /\ conversation_history[3] = UserEntry(conversation_history[2].content)
    /\ conversation_history[4].content = current_message
    /\ conversation_history[2].content # conversation_history[4].content
    /\ sample_i = 1

IsPrefix(a, b) == Len(a) <= Len(b) /\ SubSeq(b, 1, Len(a)) = a
IsProperPrefix(a, b) == Len(a) < Len(b) /\ IsPrefix(a, b)

\* C18: the history is append-only: no step of a conversation modifies or
\* removes an entry, and the request context of every turn after the first
\* has the whole request context of the turn before it as a proper prefix.
C18_AppendOnly ==
    /\ [](\A j \in 2..Len(calls) :
             ~FirstOfSample(j) =>
                 IsProperPrefix(calls[j - 1].request.messages,
                                calls[j].request.messages))
    /\ [][pc # "sample_loop" =>
             IsPrefix(conversation_history, conversation_history')]_vars

C18_Witness ==
    /\ Len(calls) = 4
    /\ calls[4].sample = 1
    /\ Len(calls[4].request.messages) = 7
    /\ calls[4].request.messages[2].content # calls[4].request.messages[4].content

\* C19: every model call carries the configured model_name, the fixed token
\* ceiling, the system_prompt of the agent whose turn it is and the current
\* request context; the transcript entry appended for a call has role
\* assistant, that agent's name as speaker and the text the call returned.
C19_CallAndEntry ==
    /\ \A j \in 1..Len(calls) :
          /\ calls[j].request.model = config.model_name
          /\ calls[j].request.max_tokens = MaxTokens
          /\ calls[j].agent \in 1..NumAgents
          /\ calls[j].request.system =
                config.agents[calls[j].agent].system_prompt
    /\ pc = "awaiting" =>
          /\ calls[Len(calls)].agent = agent_i
          /\ calls[Len(calls)].sample = sample_i + 1
          /\ calls[Len(calls)].request.messages =
                conversation_history \o <<UserEntry(current_message)>>
    /\ InConversation =>
          LET idx == SampleCallIdx(sample_i + 1)
          IN  /\ Len(messages) = CompletedTurns
              /\ \A k \in 1..Len(messages) :
                    /\ messages[k].role = "assistant"
                    /\ messages[k].speaker =
                          config.agents[calls[idx[k]].agent].name
                    /\ messages[k].content = responses[idx[k]].text

C19_Witness ==
    /\ pc = "awaiting"
    /\ agent_i = 2
    /\ config.agents[1] # config.agents[2]
    /\ Len(messages) = 3
    /\ messages[2].speaker = config.agents[2].name
    /\ messages[1].content # messages[2].content
    /\ config.model_name = "model-y"

\* the thread always takes its next step and a pending model call always
\* comes back, with a text or with a failure
FairSpec == Spec /\ WF_vars(Next)

SampleIds == 1..MaxSamples

\* state of the turn scheduler of sample s
SchedState(s) ==
    IF sample_i >= s THEN "Completed"
    ELSE IF sample_i = s - 1 /\ pc = "raised" THEN "Failed"
    ELSE IF sample_i = s - 1 /\ pc \in {"round_loop", "agent_loop", "awaiting"}
      THEN "Running"
    ELSE "Idle"

\* number of (round, agent) pairs of one conversation
ExpectedPairs == IF NumTurns > 0 THEN NumTurns * NumAgents ELSE 0

SchedTransitions ==
    {<<"Idle", "Idle">>, <<"Idle", "Running">>, <<"Running", "Running">>,
     <<"Running", "Completed">>, <<"Running", "Failed">>,
     <<"Completed", "Completed">>, <<"Failed", "Failed">>}

\* some scheduler is Running; a Running scheduler can only stay Running or
\* move to Completed or Failed, so it has reached one of the two as soon as
\* no scheduler is Running
SchedulerRunning == \E s \in SampleIds : SchedState(s) = "Running"

\* C20: the scheduler of every sample moves Idle -> Running -> {Completed,
\* Failed} only; it is Completed only when each of its (round, agent) pairs
\* got a text, Failed exactly when one of its calls failed, never leaves
\* Completed or Failed, and once Running it eventually reaches one of them.
C20_SchedulerStateMachine ==
    /\ [](\A s \in SampleIds :
             /\ SchedState(s) = "Completed" =>
                   LET idx == SampleCallIdx(s)
                   IN  /\ Len(idx) = ExpectedPairs
                       /\ \A k \in 1..Len(idx) :
                             /\ idx[k] <= Len(responses)
                             /\ responses[idx[k]].kind = "text"
             /\ SchedState(s) = "Failed" <=> s \in FailedSamples)
    /\ [][\A s \in SampleIds :
             <<SchedState(s), SchedState(s)'>> \in SchedTransitions]_vars
    /\ SchedulerRunning ~> ~SchedulerRunning

C20_Witness ==
    /\ SchedState(1) = "Completed"
    /\ SchedState(2) = "Failed"
    /\ Len(SampleCallIdx(1)) = 4
    /\ Len(SampleCallIdx(2)) = 2

\* number of model calls of sample s that were issued and have not come back
InFlightOf(s) ==
    Cardinality({j \in 1..Len(calls) :
                    calls[j].sample = s /\ j > Len(responses)})

RECURSIVE SumInFlight(_)
SumInFlight(s) == IF s = 0 THEN 0 ELSE InFlightOf(s) + SumInFlight(s - 1)

\* model calls in flight over all samples of the batch
TotalInFlight == SumInFlight(IF num_samples > 0 THEN num_samples ELSE 0)

\* C21: the number of model calls in flight over all samples never exceeds
\* the concurrency bound, whichever bound of at least one is configured
\* and whatever num_samples is.
C21_ConcurrencyBound ==
    \A bound \in 1..MaxSamples :
        /\ TotalInFlight <= bound
        /\ \A s \in 1..MaxSamples : InFlightOf(s) <= bound

C21_Witness ==
    /\ num_samples = 2
    /\ InFlightOf(2) = 1
    /\ TotalInFlight = 1
    /\ Len(responses) >= 2

\* ------------------------------------------------------------ cancellation
\* The only cancellation signal the program can receive is an interrupt of
\* the process: KeyboardInterrupt is raised wherever the interpreter next
\* looks for signals, nothing in run_samples or main catches it, and main
\* ends there.  The signal can arrive between two steps of the thread or
\* part-way through the statements one step stands for.

\* between two steps, anywhere from before run_samples to the last write
InterruptBetweenSteps ==
    /\ pc \in {"constructed", "sample_loop", "round_loop", "agent_loop",
               "awaiting", "returned", "wrote_transcript"}
    /\ pc' = "interrupted"
    /\ UNCHANGED <<config, batchVars, convVars, calls, responses, files>>

\* after the call returned a text, part-way through the rest of the loop
\* body: before messages.append, before conversation_history.extend, or
\* before current_message = content
InterruptInLoopBody ==
    /\ pc = "awaiting"
    /\ \E content \in Replies, done \in {"none", "append", "extend"} :
         /\ responses' = Append(responses,
                [kind |-> "text", text |-> content, error |-> NoError])
         /\ messages' =
                IF done \in {"append", "extend"}
                  THEN appendTranscript(messages, config.agents[agent_i], content)
                  ELSE messages
         /\ conversation_history' =
                IF done = "extend"
                  THEN advanceHistory(conversation_history, current_message,
                                      content)
                  ELSE conversation_history
    /\ pc' = "interrupted"
    /\ UNCHANGED <<config, batchVars, current_message, turn_i, agent_i,
                   calls, files>>

\* after results.append(result), before the progress bar counts the sample
InterruptAfterAppend ==
    /\ pc = "round_loop"
    /\ ~RangeHasNext(turn_i, config.num_turns)
    /\ results' = appendResult(results, messages)
    /\ pc' = "interrupted"
    /\ UNCHANGED <<config, num_samples, sample_i, progress, convVars, calls,
                   responses, files>>

\* in main, while a file is open for writing: the file exists and holds a
\* proper prefix of its content (complete = FALSE), or, for config.yaml,
\* all of it with main not yet finished
InterruptInWrite ==
    /\ \/ /\ pc = "returned"
          /\ files' = Append(files,
                [name |-> "transcript.json", content |-> results,
                 complete |-> FALSE])
       \/ /\ pc = "wrote_transcript"
          /\ \E whole \in BOOLEAN :
                files' = Append(files,
                   [name |-> "config.yaml", content |-> config,
                    complete |-> whole])
    /\ pc' = "interrupted"
    /\ UNCHANGED <<config, batchVars, convVars, calls, responses>>

Interrupt ==
    \/ InterruptBetweenSteps
    \/ InterruptInLoopBody
    \/ InterruptAfterAppend
    \/ InterruptInWrite

NextCancel == Next \/ Interrupt

CancelSpec == Init /\ [][NextCancel]_vars

\* samples that had certainly not been entered when the signal came: those
\* after the one the sample loop was at
NotStarted == {s \in 1..num_samples : s > sample_i + 1}

\* the entry a result holds for a sample that was not attempted
SkippedMarker == <<[role |-> "skipped", speaker |-> NoText, content |-> NoText]>>

\* C22: once the run was cancelled, every sample that had not started is in
\* the result of run_samples, marked as skipped.
C22_CancelMarksSkipped ==
    pc = "interrupted" =>
        \A s \in NotStarted :
            /\ s <= Len(results)
            /\ results[s] = SkippedMarker

\* C23: no step of run_samples or of a conversation writes the config, and
\* none of them writes a file: up to the return of run_samples the only
\* things that change are its own locals and the progress count.
C23_NoSideEffects ==
    [][/\ config' = config
       /\ ~RunSamplesReturned => files' = files /\ files = <<>>]_vars

C23_Witness ==
    /\ RunSamplesReturned
    /\ "num_samples" \notin DOMAIN config
    /\ num_samples = 1
    /\ Len(results) = 1 /\ Len(results[1]) = 4

\* total shown by the progress bar: the length of range(num_samples)
ProgressTotal == IF num_samples > 0 THEN num_samples ELSE 0

\* C24: the progress count starts at 0, equals the number of samples that
\* have completed, grows by exactly 1 when a sample completes and at no
\* other step, never exceeds the total, and equals the total when
\* run_samples returns.
C24_ProgressCount ==
    /\ [](/\ pc = "constructed" => progress = 0
          /\ progress = Len(results)
          /\ pc # "constructed" => progress <= ProgressTotal
          /\ RunSamplesReturned => progress = ProgressTotal)
    /\ [][\/ progress' = progress /\ Len(results') = Len(results)
          \/ /\ progress' = progress + 1
             /\ pc = "round_loop" /\ pc' = "sample_loop"
             /\ sample_i' = sample_i + 1]_vars

C24_Witness ==
    /\ RunSamplesReturned
    /\ progress = 2
    /\ num_samples = 2
    /\ Len(calls) >= 2

\* C25: nothing is written before run_samples has returned with every
\* sample finished; then exactly one transcript file holding all the
\* conversations in order and one echo of the config are written, in that
\* order, and nothing else.
C25_PersistOnceAtEnd ==
    /\ Len(files) <= 2
    /\ files # <<>> =>
          /\ pc \in {"wrote_transcript", "done"}
          /\ sample_i = ProgressTotal
          /\ Len(results) = ProgressTotal
          /\ InFlight = 0
          /\ files[1] = [name |-> "transcript.json", content |-> results,
                          complete |-> TRUE]
          /\ \A s \in 1..Len(results) : results[s] = LoggedTranscript(s)
    /\ Len(files) = 2 =>
          files[2] = [name |-> "config.yaml", content |-> config, complete |-> TRUE]
    /\ pc = "wrote_transcript" => Len(files) = 1
    /\ pc = "done" => Len(files) = 2

C25_Witness ==
    /\ pc = "done"
    /\ Len(files) = 2
    /\ Len(files[1].content) = 2
    /\ files[1].content[1] # files[1].content[2]
    /\ files[2].content.num_turns = 2

\* C26: with two or more agents, the request of every turn after the first
\* holds, as assistant entries, the replies of all earlier turns of the
\* conversation, whichever agent gave them; the latest of them comes from
\* an agent other than the one now called.
C26_SharedHistory ==
    NumAgents >= 2 =>
        \A j \in 1..Len(calls) :
            ~FirstOfSample(j) =>
                LET m == calls[j].request.messages
                    idx == SampleCallIdx(calls[j].sample)
                    k == TurnNumber(calls[j])
                IN  /\ Len(m) = 2 * k - 1
                    /\ calls[j - 1].agent # calls[j].agent
                    /\ m[Len(m) - 1] = AssistantEntry(responses[j - 1].text)
                    /\ \A t \in 1..(k - 1) :
                          m[2 * t] = AssistantEntry(responses[idx[t]].text)
                    /\ \E t \in 1..(k - 1) :
                          /\ calls[idx[t]].agent # calls[j].agent
                          /\ m[2 * t].role = "assistant"
                          /\ m[2 * t].content = responses[idx[t]].text

C26_Witness ==
    /\ NumAgents = 2
    /\ config.agents[1] # config.agents[2]
    /\ Len(calls) >= 3
    /\ calls[3].sample = 1
    /\ calls[3].agent = 1
    /\ calls[3].request.messages[4].content = responses[2].text
    /\ responses[1].text # responses[2].text

\* C27: between turns the history starts with {user, seed}; every reply is
\* in it twice in a row, as an assistant entry and as the user entry after
\* it; its assistant entries are the contents of the transcript in order;
\* and current_message is the content of its last entry.
C27_HistoryStructure ==
    InConversation =>
        LET h == conversation_history
        IN  /\ Len(h) = 2 * Len(messages)
            /\ h = <<>> => current_message = SeedGreeting
            /\ h # <<>> =>
                  /\ h[1] = UserEntry(SeedGreeting)
                  /\ current_message = h[Len(h)].content
            /\ \A j \in 1..Len(messages) :
                  2 * j + 1 <= Len(h) =>
                      /\ h[2 * j].role = "assistant"
                      /\ h[2 * j + 1] = UserEntry(h[2 * j].content)
            /\ \A i \in 1..Len(messages) :
                  h[2 * i] = AssistantEntry(messages[i].content)

C27_Witness ==
    /\ pc = "agent_loop"
    /\ Len(conversation_history) = 6
    /\ conversation_history[2].content # conversation_history[4].content
    /\ conversation_history[5].content = messages[2].content
    /\ current_message = messages[3].content
    /\ sample_i = 1

\* C28: degenerate configs run without error and without a model call:
\* with num_turns <= 0 or an empty roster every conversation returns an
\* empty transcript; with num_samples <= 0 no conversation is entered and
\* the result is empty; with num_samples absent exactly one conversation
\* is run.
C28_DegenerateConfigs ==
    /\ (NumTurns <= 0 \/ NumAgents = 0) =>
          /\ calls = <<>>
          /\ pc \notin {"awaiting", "raised"}
          /\ messages = <<>>
          /\ \A i \in 1..Len(results) : results[i] = <<>>
          /\ RunSamplesReturned => Len(results) = ProgressTotal
    /\ (pc # "constructed" /\ num_samples <= 0) =>
          /\ calls = <<>>
          /\ results = <<>>
          /\ pc \in {"sample_loop", "returned", "wrote_transcript", "done"}
    /\ "num_samples" \notin DOMAIN config =>
          /\ pc # "constructed" => num_samples = 1
          /\ sample_i <= 1
          /\ \A j \in 1..Len(calls) : calls[j].sample = 1
          /\ RunSamplesReturned => Len(results) = 1 /\ sample_i = 1

C28_Witness ==
    /\ pc = "done"
    /\ "num_samples" \notin DOMAIN config
    /\ NumTurns = -1
    /\ NumAgents = 2
    /\ results = << <<>> >>
    /\ files[1].content = << <<>> >>

\* C29: the batch is sequential: the calls of the samples follow one
\* another in sample order, a sample's first call is issued only after
\* every call of the sample before it has returned a text, every call but
\* the latest has come back, and a batch that returns has made exactly
\* num_samples * num_turns * len(agents) calls.
C29_SequentialBatch ==
    /\ \A j \in 1..Len(calls) :
          /\ j < Len(calls) => j <= Len(responses)
          /\ j = 1 => calls[j].sample = 1
          /\ (j > 1 /\ FirstOfSample(j)) =>
                /\ calls[j].sample = calls[j - 1].sample + 1
                /\ Len(SampleCallIdx(calls[j - 1].sample)) = ExpectedPairs
                /\ \A i \in 1..(j - 1) : responses[i].kind = "text"
    /\ RunSamplesReturned =>
          /\ Len(calls) = ProgressTotal * ExpectedPairs
          /\ Len(responses) = Len(calls)

C29_Witness ==
    /\ RunSamplesReturned
    /\ num_samples = 2 /\ NumTurns = 2 /\ NumAgents = 2
    /\ Len(calls) = 8
    /\ calls[5].sample = 2

\* the model client behaved as a function of (system_prompt, messages):
\* equal requests got equal outcomes
DeterministicAdapter ==
    \A i, j \in 1..Len(responses) :
        (/\ calls[i].request.system = calls[j].request.system
         /\ calls[i].request.messages = calls[j].request.messages)
            => responses[i] = responses[j]

\* the requests of sample s, in issue order
RequestsOf(s) ==
    LET idx == SampleCallIdx(s)
    IN  [k \in 1..Len(idx) |-> calls[idx[k]].request]

\* C30: when the model client is deterministic, every sample issues the
\* same sequence of requests as the first one and returns the same
\* transcript, whatever its index and whatever ran before it.
C30_SampleDeterminism ==
    DeterministicAdapter =>
        /\ \A s \in 1..MaxSamples :
              LET r1 == RequestsOf(1)
                  rs == RequestsOf(s)
              IN  /\ Len(rs) <= Len(r1)
                  /\ \A k \in 1..Len(rs) : rs[k] = r1[k]
        /\ \A s \in 1..Len(results) :
              /\ results[s] = results[1]
              /\ RequestsOf(s) = RequestsOf(1)

C30_Witness ==
    /\ DeterministicAdapter
    /\ Len(results) = 2
    /\ Len(results[1]) = 4
    /\ results[1][1].content # results[1][2].content
    /\ Len(calls) = 8

====
